---- MODULE Spec2Model ----
(***************************************************************************)
(* Model of env-scream-detector.js (class EnvScreamDetector and its CLI).  *)
(*                                                                         *)
(* A JavaScript string is a sequence of one-character strings, positions   *)
(* are 0-based as in JavaScript (At(s, i) is s[i]), and a RegExp object is *)
(* its pattern together with its mutable lastIndex.                        *)
(***************************************************************************)
EXTENDS Integers, Sequences, FiniteSets, TLC

----------------------------------------------------------------------------
(* Characters and strings                                                  *)

Lower == <<"a","b","c","d","e","f","g","h","i","j","k","l","m",
           "n","o","p","q","r","s","t","u","v","w","x","y","z">>

Upper == <<"A","B","C","D","E","F","G","H","I","J","K","L","M",
           "N","O","P","Q","R","S","T","U","V","W","X","Y","Z">>

IsLower(c) == \E k \in DOMAIN Lower : Lower[k] = c

IsUpper(c) == \E k \in DOMAIN Upper : Upper[k] = c

\* String.prototype.toUpperCase on one character of the modelled alphabet
ToUpperChar(c) ==
  IF IsLower(c) THEN Upper[CHOOSE k \in DOMAIN Lower : Lower[k] = c] ELSE c

\* a mutant of toUpperCase: the text is kept as it was matched
KeepCase(s) == s

\* String.prototype.toUpperCase
toUpperCase(s) == [k \in 1..Len(s) |-> ToUpperChar(s[k])]

\* s[i] of JavaScript (0-based)
At(s, i) == s[i + 1]

\* s.substring(from, to) of JavaScript (0-based, to exclusive)
Substring(s, from, to) == [k \in 1..(to - from) |-> s[from + k]]

\* the least element of a non-empty set of integers
MinOf(S) == CHOOSE x \in S : \A y \in S : x <= y

\* the index (1-based) of the first occurrence of character c in s, or 0
FirstIndex(s, c) ==
  LET hits == {k \in DOMAIN s : s[k] = c}
  IN IF hits = {} THEN 0 ELSE MinOf(hits)

\* String.prototype.includes for a one-character argument
Includes(s, c) == FirstIndex(s, c) > 0

\* String.prototype.split for a one-character separator
RECURSIVE Split(_, _)
Split(s, sep) ==
  LET k == FirstIndex(s, sep)
  IN IF k = 0 THEN <<s>>
     ELSE <<SubSeq(s, 1, k - 1)>> \o Split(SubSeq(s, k + 1, Len(s)), sep)

\* the characters the regular expression dot does not match
LineTerminators == {"\n", "\r"}

\* the characters String.prototype.trim removes
WhiteSpace == {" ", "\t", "\n", "\r"}

RECURSIVE TrimStart(_)
TrimStart(s) ==
  IF s # <<>> /\ Head(s) \in WhiteSpace THEN TrimStart(Tail(s)) ELSE s

RECURSIVE TrimEnd(_)
TrimEnd(s) ==
  IF s # <<>> /\ s[Len(s)] \in WhiteSpace
    THEN TrimEnd(SubSeq(s, 1, Len(s) - 1))
    ELSE s

\* String.prototype.trim
Trim(s) == TrimEnd(TrimStart(s))

----------------------------------------------------------------------------
(* Regular expressions of the constructor                                  *)

\* the character class [A-Z_], with or without the i flag
InClass(c, ignoreCase) == c = "_" \/ IsUpper(c) \/ (ignoreCase /\ IsLower(c))

\* one literal character of a pattern against one character of the text
CharMatches(c, l, ignoreCase) ==
  c = l \/ (ignoreCase /\ ToUpperChar(c) = ToUpperChar(l))

\* the literal lit matches the text at index i
LitAt(s, i, lit, ignoreCase) ==
  /\ i >= 0
  /\ i + Len(lit) <= Len(s)
  /\ \A k \in 1..Len(lit) : CharMatches(s[i + k], lit[k], ignoreCase)

\* the index just after the longest run of class characters that starts at i
RECURSIVE RunEnd(_, _, _)
RunEnd(s, i, ignoreCase) ==
  IF i < Len(s) /\ InClass(At(s, i), ignoreCase)
    THEN RunEnd(s, i + 1, ignoreCase)
    ELSE i

\* the index of the first line terminator at or after i, or the length
LineEnd(s, i) ==
  MinOf({j \in i..Len(s) : j = Len(s) \/ At(s, j) \in LineTerminators})

LitProcessEnv == <<"p","r","o","c","e","s","s",".","e","n","v",".">>
LitEnv == <<"e","n","v",".">>
LitCannotRead ==
  <<"C","a","n","n","o","t"," ","r","e","a","d"," ","p","r","o","p","e","r","t">>
LitOfUndefined == <<"o","f"," ","u","n","d","e","f","i","n","e","d">>
LitIsNotDefined ==
  <<" ","i","s"," ","n","o","t"," ","d","e","f","i","n","e","d">>
LitMissing == <<"M","i","s","s","i","n","g"," ">>

\* this.envPatterns: the shape of each expression, its literals and its flags
\*   "prefix":  lit ([A-Z_]+)
\*   "suffix":  ([A-Z_]+) lit
\*   "chain":   lit .+ mid .* last ([A-Z_]+)
envPatterns ==
  << [shape |-> "prefix", lit |-> LitProcessEnv, mid |-> <<>>, last |-> <<>>,
      ignoreCase |-> FALSE],
     [shape |-> "prefix", lit |-> LitEnv, mid |-> <<>>, last |-> <<>>,
      ignoreCase |-> FALSE],
     [shape |-> "chain", lit |-> LitCannotRead, mid |-> LitOfUndefined,
      last |-> LitEnv, ignoreCase |-> TRUE],
     [shape |-> "suffix", lit |-> LitIsNotDefined, mid |-> <<>>, last |-> <<>>,
      ignoreCase |-> FALSE],
     [shape |-> "prefix", lit |-> LitMissing, mid |-> <<>>, last |-> <<>>,
      ignoreCase |-> FALSE] >>

NumPatterns == Len(envPatterns)

NoMatch == [found |-> FALSE, group |-> <<>>, end |-> 0]

\* lit ([A-Z_]+) tried at index i
PrefixAt(p, s, i) ==
  LET g == i + Len(p.lit)
      e == RunEnd(s, g, p.ignoreCase)
  IN IF LitAt(s, i, p.lit, p.ignoreCase) /\ e > g
       THEN [found |-> TRUE, group |-> Substring(s, g, e), end |-> e]
       ELSE NoMatch

\* ([A-Z_]+) lit tried at index i: the greedy run must be followed by lit, and
\* no shorter run can be, since lit starts with a character outside the class
SuffixAt(p, s, i) ==
  LET e == RunEnd(s, i, p.ignoreCase)
  IN IF e > i /\ LitAt(s, e, p.lit, p.ignoreCase)
       THEN [found |-> TRUE, group |-> Substring(s, i, e), end |-> e + Len(p.lit)]
       ELSE NoMatch

\* lit .+ mid .* last ([A-Z_]+) tried at index i. Both dots are greedy and stop
\* at a line terminator, so backtracking settles on the last occurrence of
\* "last" followed by a class character on the line that has an occurrence of
\* "mid" before it, at least one character after "lit"
ChainAt(p, s, i) ==
  LET a == i + Len(p.lit)
      eol == LineEnd(s, a)
      Mids == {k \in (a + 1)..(eol - Len(p.mid)) : LitAt(s, k, p.mid, p.ignoreCase)}
      Lasts == {j \in (a + 1 + Len(p.mid))..(eol - Len(p.last) - 1) :
                  /\ LitAt(s, j, p.last, p.ignoreCase)
                  /\ InClass(At(s, j + Len(p.last)), p.ignoreCase)
                  /\ \E k \in Mids : k + Len(p.mid) <= j}
      j == CHOOSE x \in Lasts : \A y \in Lasts : y <= x
      g == j + Len(p.last)
      e == RunEnd(s, g, p.ignoreCase)
  IN IF LitAt(s, i, p.lit, p.ignoreCase) /\ Lasts # {}
       THEN [found |-> TRUE, group |-> Substring(s, g, e), end |-> e]
       ELSE NoMatch

\* the pattern tried at index i only
MatchAt(p, s, i) ==
  CASE p.shape = "prefix" -> PrefixAt(p, s, i)
    [] p.shape = "suffix" -> SuffixAt(p, s, i)
    [] p.shape = "chain" -> ChainAt(p, s, i)

\* the first index at or after i where the pattern matches, or Len(s) + 1
FirstMatch(p, s, i) ==
  LET hits == {j \in i..Len(s) : MatchAt(p, s, j).found}
  IN IF hits = {} THEN Len(s) + 1 ELSE MinOf(hits)

\* a mutant of Exec: the expression lacks the g flag, every search starts at
\* index 0 and lastIndex is never moved
ExecNotGlobal(p, s, lastIndex) ==
  LET i == FirstMatch(p, s, 0)
  IN IF i > Len(s)
       THEN [match |-> NoMatch, lastIndex |-> 0]
       ELSE [match |-> MatchAt(p, s, i), lastIndex |-> 0]

\* a mutant of Exec: a failed search leaves lastIndex where it was
ExecKeepsLastIndex(p, s, lastIndex) ==
  LET i == FirstMatch(p, s, lastIndex)
  IN IF i > Len(s)
       THEN [match |-> NoMatch, lastIndex |-> lastIndex]
       ELSE [match |-> MatchAt(p, s, i), lastIndex |-> MatchAt(p, s, i).end]

\* RegExp.prototype.exec for a global expression: the search starts at
\* lastIndex; a match moves lastIndex to its end, a failure resets it to 0
Exec(p, s, lastIndex) ==
  LET i == FirstMatch(p, s, lastIndex)
  IN IF i > Len(s)
       THEN [match |-> NoMatch, lastIndex |-> 0]
       ELSE [match |-> MatchAt(p, s, i), lastIndex |-> MatchAt(p, s, i).end]

----------------------------------------------------------------------------
(* Bounds and inputs                                                       *)

\* a log text is the concatenation of at most MaxFrags fragments
MaxFrags == 3

\* pieces of log text: the literals of the patterns, names in both cases,
\* a line break
Fragments ==
  << <<"p","r","o","c","e","s","s",".">>,
     <<"e","n","v",".">>,
     <<"E","N","V",".">>,
     <<"D","B","_","U","R","L">>,
     <<"k","e","y">>,
     <<"C","a","n","n","o","t"," ","r","e","a","d"," ","p","r","o","p","e","r",
       "t","y"," ","o","f"," ","u","n","d","e","f","i","n","e","d"," ">>,
     <<" ","i","s"," ","n","o","t"," ","d","e","f","i","n","e","d">>,
     <<"M","i","s","s","i","n","g"," ">>,
     <<"\n">> >>

RECURSIVE TextsOf(_)
TextsOf(n) ==
  IF n = 0 THEN {<<>>}
  ELSE LET shorter == TextsOf(n - 1)
       IN shorter \cup {t \o Fragments[f] : t \in shorter, f \in DOMAIN Fragments}

LogTexts == TextsOf(MaxFrags)

\* a file of the file system: absent, or present with its content
AbsentFile == [exists |-> FALSE, content |-> <<>>]
FileOf(content) == [exists |-> TRUE, content |-> content]

\* a .env file has at most MaxEnvLines lines
MaxEnvLines == 2

\* lines of a .env file: a declaration, commented-out declarations with and
\* without a blank after the marker, a lower-case key with blanks around it, a
\* value that contains the separator, a line without separator
EnvLines ==
  << <<"D","B","_","U","R","L","=","x">>,
     <<"#"," ","K","E","Y","=","x">>,
     <<"#","D","B","_","U","R","L","=","x">>,
     <<" ","k","e","y"," ","=","v">>,
     <<"A","=","b","=","c">>,
     <<"K","E","Y">> >>

\* the contents made of exactly n lines, joined by line breaks
RECURSIVE EnvOfLines(_)
EnvOfLines(n) ==
  IF n = 0 THEN {<<>>}
  ELSE IF n = 1 THEN {EnvLines[l] : l \in DOMAIN EnvLines}
  ELSE {c \o <<"\n">> \o EnvLines[l] : c \in EnvOfLines(n - 1), l \in DOMAIN EnvLines}

EnvFiles(max) ==
  {AbsentFile} \cup {FileOf(c) : c \in UNION {EnvOfLines(n) : n \in 0..max}}

\* the names autopsy is asked about
Names == << <<"D","B","_","U","R","L">>, <<"K","E","Y">>, <<"A">> >>

\* autopsy is given at most MaxSuspects names
MaxSuspects == 3

SuspectLists ==
  UNION {[1..n -> {Names[k] : k \in DOMAIN Names}] : n \in 0..MaxSuspects}

\* a log file of a command-line run has at most MaxLogLines lines
MaxLogLines == 2

\* lines of a log file: one for each kind of message the patterns look for,
\* a line in lower case that only the case-insensitive pattern could take, a
\* line without any variable
LogLines ==
  << <<"p","r","o","c","e","s","s",".","e","n","v",".","D","B","_","U","R","L",
       " ","i","s"," ","u","n","d","e","f","i","n","e","d">>,
     <<"M","i","s","s","i","n","g"," ","K","E","Y">>,
     <<"A"," ","i","s"," ","n","o","t"," ","d","e","f","i","n","e","d">>,
     <<"C","a","n","n","o","t"," ","r","e","a","d"," ","p","r","o","p","e","r",
       "t","y"," ","o","f"," ","u","n","d","e","f","i","n","e","d"," ",
       "e","n","v",".","k","e","y">>,
     <<"p","r","o","c","e","s","s",".","e","n","v",".","k","e","y">>,
     <<"a","l","l"," ","g","o","o","d">> >>

RECURSIVE LogOfLines(_)
LogOfLines(n) ==
  IF n = 0 THEN {<<>>}
  ELSE IF n = 1 THEN {LogLines[l] : l \in DOMAIN LogLines}
  ELSE {c \o <<"\n">> \o LogLines[l] : c \in LogOfLines(n - 1), l \in DOMAIN LogLines}

LogFiles ==
  {AbsentFile} \cup {FileOf(c) : c \in UNION {LogOfLines(n) : n \in 0..MaxLogLines}}

\* process.argv: node, the script, and the arguments of the command line
ArgvSet ==
  { <<"node", "env-scream-detector.js">>,
    <<"node", "env-scream-detector.js", "error.log">>,
    <<"node", "env-scream-detector.js", "error.log", "extra">> }

----------------------------------------------------------------------------
(* State                                                                   *)

VARIABLES
  pc,          \* "idle", "loop" (inside detectScreams), "returned", "exited"
  lastIndex,   \* lastIndex of each expression of this.envPatterns
  logContent,  \* argument of the running detectScreams call
  patternIdx,  \* position of envPatterns.forEach
  suspects,    \* the Set of detectScreams, in insertion order
  screams,     \* value returned by the last detectScreams call
  prev,        \* <<r>> when the running call repeats the text of the call
               \* that has just returned r, <<>> otherwise
  envFile,     \* the file .env of the current working directory
  logFile,     \* the file at the path given on the command line
  argv,        \* process.argv
  verdict,     \* value returned by the last autopsy call
  out,         \* the lines written by console.log, one entry for each call
  trace,       \* the methods entered and the file system calls made, in order
  exitCode     \* exit status of the process, -1 while it runs

detectVars == <<lastIndex, logContent, patternIdx, suspects, screams, prev>>
ioVars == <<envFile, logFile, argv, verdict, out, trace, exitCode>>
vars == <<pc, detectVars, ioVars>>

Range(seq) == {seq[k] : k \in DOMAIN seq}

\* Set.prototype.add on a Set kept in insertion order
SetAdd(set, x) == IF x \in Range(set) THEN set ELSE Append(set, x)

\* the body of the while loop: if (match[1]) suspects.add(match[1].toUpperCase())
AddSuspect(set, match) ==
  IF match.group # <<>> THEN SetAdd(set, toUpperCase(match.group)) ELSE set

\* the value of verdict before any autopsy call
NoVerdict == [missing |-> <<>>, misconfigured |-> <<>>]

\* lastIndex of every expression right after the constructor
FreshLastIndex == [k \in 1..NumPatterns |-> 0]

\* envPatterns.forEach with its while loop, from pattern k on
RECURSIVE RunPatterns(_, _, _, _)
RunPatterns(k, s, li, set) ==
  IF k > NumPatterns THEN [screams |-> set, lastIndex |-> li]
  ELSE LET r == Exec(envPatterns[k], s, li[k])
           li2 == [li EXCEPT ![k] = r.lastIndex]
       IN IF r.match.found
            THEN RunPatterns(k, s, li2, AddSuspect(set, r.match))
            ELSE RunPatterns(k + 1, s, li2, set)

\* detectScreams(s) as one step, on a detector whose expressions have the
\* lastIndex values li: the array returned and the lastIndex values left
detectScreams(s, li) == RunPatterns(1, s, li, <<>>)

----------------------------------------------------------------------------
(* detectScreams, one exec call at a time                                  *)

DetectInit ==
  /\ pc = "idle"
  /\ lastIndex = FreshLastIndex
  /\ logContent = <<>>
  /\ patternIdx = 0
  /\ suspects = <<>>
  /\ screams = <<>>
  /\ prev = <<>>
  /\ envFile = AbsentFile
  /\ logFile = AbsentFile
  /\ argv = <<>>
  /\ verdict = NoVerdict
  /\ out = <<>>
  /\ trace = <<>>
  /\ exitCode = -1

\* detectScreams(logContent) is entered: const suspects = new Set()
DetectCall ==
  /\ pc = "idle"
  /\ \E t \in LogTexts : logContent' = t
  /\ pc' = "loop"
  /\ patternIdx' = 1
  /\ suspects' = <<>>
  /\ screams' = <<>>
  /\ prev' = <<>>
  /\ UNCHANGED <<lastIndex, ioVars>>

\* the caller calls detectScreams again with the text of the call that has
\* just returned
DetectRepeat ==
  /\ pc = "returned"
  /\ pc' = "loop"
  /\ patternIdx' = 1
  /\ suspects' = <<>>
  /\ screams' = <<>>
  /\ prev' = <<screams>>
  /\ UNCHANGED <<lastIndex, logContent, ioVars>>

\* pattern.exec(logContent) returns a match: the loop body runs
ExecMatch ==
  /\ pc = "loop"
  /\ patternIdx <= NumPatterns
  /\ LET r == Exec(envPatterns[patternIdx], logContent, lastIndex[patternIdx])
     IN /\ r.match.found
        /\ lastIndex' = [lastIndex EXCEPT ![patternIdx] = r.lastIndex]
        /\ suspects' = AddSuspect(suspects, r.match)
  /\ UNCHANGED <<pc, logContent, patternIdx, screams, prev, ioVars>>

\* pattern.exec(logContent) returns null: forEach moves to the next pattern
ExecNull ==
  /\ pc = "loop"
  /\ patternIdx <= NumPatterns
  /\ LET r == Exec(envPatterns[patternIdx], logContent, lastIndex[patternIdx])
     IN /\ ~r.match.found
        /\ lastIndex' = [lastIndex EXCEPT ![patternIdx] = r.lastIndex]
  /\ patternIdx' = patternIdx + 1
  /\ UNCHANGED <<pc, logContent, suspects, screams, prev, ioVars>>

\* return Array.from(suspects)
DetectReturn ==
  /\ pc = "loop"
  /\ patternIdx > NumPatterns
  /\ screams' = suspects
  /\ pc' = "returned"
  /\ UNCHANGED <<lastIndex, logContent, patternIdx, suspects, prev, ioVars>>

\* the caller is done with the returned array; the locals of the call are
\* gone and only the detector (its expressions' lastIndex) lives on
DetectDiscard ==
  /\ pc = "returned"
  /\ pc' = "idle"
  /\ logContent' = <<>>
  /\ patternIdx' = 0
  /\ suspects' = <<>>
  /\ screams' = <<>>
  /\ prev' = <<>>
  /\ UNCHANGED <<lastIndex, ioVars>>

DetectStep == ExecMatch \/ ExecNull \/ DetectReturn

DetectNext ==
  DetectCall \/ DetectRepeat \/ ExecMatch \/ ExecNull \/ DetectReturn \/ DetectDiscard

DetectSpec == DetectInit /\ [][DetectNext]_vars

\* The call is synchronous: once entered it runs on until it returns. This is
\* weak fairness of DetectStep, WF_vars(DetectStep), written out with
\* ENABLED <<DetectStep>>_vars replaced by pc = "loop", to which it is
\* equivalent: in every state inside the loop exactly one of ExecMatch,
\* ExecNull and DetectReturn can be taken, and each changes vars
FairDetectSpec ==
  DetectSpec /\ ([]<>(pc # "loop") \/ []<><<DetectStep>>_vars)

----------------------------------------------------------------------------
(* autopsy                                                                 *)

\* Array.prototype.filter is SelectSeq, Array.prototype.map and forEach are
\* function constructors over the indices of the array

Reverse(seq) == [k \in DOMAIN seq |-> seq[Len(seq) + 1 - k]]

\* a mutant of KeyOf: a leading comment marker is dropped from the key
KeyOfUncommented(line) ==
  LET k == Trim(Split(line, "=")[1])
      bare == IF k # <<>> /\ Head(k) = "#" THEN Trim(Tail(k)) ELSE k
  IN toUpperCase(bare)

\* line => line.split('=')[0].trim().toUpperCase()
KeyOf(line) == toUpperCase(Trim(Split(line, "=")[1]))

HasSeparator(line) == Includes(line, "=")

\* existingVars of autopsy
ExistingVars(env) ==
  IF env.exists
    THEN LET declarations == SelectSeq(Split(env.content, "\n"), HasSeparator)
         IN [k \in DOMAIN declarations |-> KeyOf(declarations[k])]
    ELSE <<>>

\* a mutant of Missing: the names kept are collected in reverse order
MissingReversed(names, existingVars) ==
  LET Absent(n) == n \notin Range(existingVars)
  IN Reverse(SelectSeq(names, Absent))

\* a mutant of Missing: the test is the one of misconfigured
MissingInverted(names, existingVars) ==
  LET Absent(n) == n \in Range(existingVars)
  IN SelectSeq(names, Absent)

\* suspects.filter(suspect => !existingVars.includes(suspect))
Missing(names, existingVars) ==
  LET Absent(n) == n \notin Range(existingVars)
  IN SelectSeq(names, Absent)

\* a mutant of Misconfigured: every suspect is kept
MisconfiguredAll(names, existingVars) == names

\* suspects.filter(suspect => existingVars.includes(suspect))
Misconfigured(names, existingVars) ==
  LET Present(n) == n \in Range(existingVars)
  IN SelectSeq(names, Present)

\* autopsy(names) with the .env file env
autopsy(names, env) ==
  [missing |-> Missing(names, ExistingVars(env)),
   misconfigured |-> Misconfigured(names, ExistingVars(env))]

\* what autopsy asks of the file system
AutopsyTrace(env) ==
  <<"autopsy", "existsSync(.env)">>
    \o (IF env.exists THEN <<"readFileSync(.env)">> ELSE <<>>)

AutopsyInit ==
  /\ pc = "idle"
  /\ lastIndex = FreshLastIndex
  /\ logContent = <<>>
  /\ patternIdx = 0
  /\ suspects = <<>>
  /\ screams = <<>>
  /\ prev = <<>>
  /\ envFile \in EnvFiles(MaxEnvLines)
  /\ logFile = AbsentFile
  /\ argv = <<>>
  /\ verdict = NoVerdict
  /\ out = <<>>
  /\ trace = <<>>
  /\ exitCode = -1

\* detector.autopsy(names); suspects is the parameter of the call
Autopsy ==
  /\ pc = "idle"
  /\ \E names \in SuspectLists : suspects' = names
  /\ verdict' = autopsy(suspects', envFile)
  /\ trace' = AutopsyTrace(envFile)
  /\ pc' = "returned"
  /\ UNCHANGED <<lastIndex, logContent, patternIdx, screams, prev>>
  /\ UNCHANGED <<envFile, logFile, argv, out, exitCode>>

AutopsySpec == AutopsyInit /\ [][Autopsy]_vars

----------------------------------------------------------------------------
(* analyze and the command line                                            *)

\* The lines of console.log. A line is a tuple of strings; the text of a fixed
\* message is kept as one string, without its leading pictograph, and a line
\* built around a name is spelled character by character.
NotFoundLine(path) == <<"Log file not found: ", path>>
TipLine == <<"Tip: Try screaming louder next time.">>
NoScreamsLine ==
  <<"No screams detected. Either perfect code or silent suffering.">>
HeaderLine == <<"ENV SCREAM ANALYSIS REPORT">>
RuleWidth == 40
RuleLine == [k \in 1..RuleWidth |-> "="]
MissingTitle == <<"\n", "MISSING VARIABLES (add to .env):">>
MisconfiguredTitle == <<"\n", "MISCONFIGURED (check values in .env):">>
ClosingLine ==
  <<"\n", "Remember: Environment variables should whisper, not scream.">>
UsageLines ==
  << <<"Usage: node env-scream-detector.js <logfile>">>,
     <<"Example: node env-scream-detector.js error.log">>,
     <<"\n", "Pro tip: Your logs are probably screaming right now.">> >>

\* `  - ${varName}=your_value_here`
MissingItem(varName) ==
  <<" "," ","-"," ">> \o varName \o
  <<"=","y","o","u","r","_","v","a","l","u","e","_","h","e","r","e">>

\* `  - ${varName}`
MisconfiguredItem(varName) == <<" "," ","-"," ">> \o varName

\* missing.forEach(varName => console.log(...))
MissingItems(names) == [k \in DOMAIN names |-> MissingItem(names[k])]

\* misconfigured.forEach(varName => console.log(...))
MisconfiguredItems(names) == [k \in DOMAIN names |-> MisconfiguredItem(names[k])]

\* a mutant of Report: the misconfigured section is printed first
ReportSwapped(v) ==
  <<HeaderLine, RuleLine>>
    \o (IF Len(v.misconfigured) > 0
          THEN <<MisconfiguredTitle>> \o MisconfiguredItems(v.misconfigured)
          ELSE <<>>)
    \o (IF Len(v.missing) > 0
          THEN <<MissingTitle>> \o MissingItems(v.missing)
          ELSE <<>>)
    \o <<ClosingLine>>

\* the console.log calls of analyze after autopsy has returned v
Report(v) ==
  <<HeaderLine, RuleLine>>
    \o (IF Len(v.missing) > 0
          THEN <<MissingTitle>> \o MissingItems(v.missing)
          ELSE <<>>)
    \o (IF Len(v.misconfigured) > 0
          THEN <<MisconfiguredTitle>> \o MisconfiguredItems(v.misconfigured)
          ELSE <<>>)
    \o <<ClosingLine>>

\* process.argv[2], undefined when the command line has no argument
PathArg(args) == IF Len(args) >= 3 THEN args[3] ELSE "undefined"

\* the file the path argument names; no file is at an undefined path
FileAt(args, log) == IF Len(args) >= 3 THEN log ELSE AbsentFile

CliInit ==
  /\ pc = "idle"
  /\ lastIndex = FreshLastIndex
  /\ logContent = <<>>
  /\ patternIdx = 0
  /\ suspects = <<>>
  /\ screams = <<>>
  /\ prev = <<>>
  /\ envFile \in EnvFiles(1)
  /\ logFile \in LogFiles
  /\ argv \in ArgvSet
  /\ verdict = NoVerdict
  /\ out = <<>>
  /\ trace = <<>>
  /\ exitCode = -1

\* a mutant of UsageExits: the check of the arguments is left out
NoUsageCheck(args) == FALSE

\* if (process.argv.length < 3)
UsageExits(args) == Len(args) < 3

\* a mutant of NoScreams: analyze does not return early on an empty result
NeverNoScreams(found) == FALSE

\* if (suspects.length === 0)
NoScreams(found) == Len(found) = 0

\* the script run without a path: usage text, process.exit(1)
MainUsage ==
  /\ pc = "idle"
  /\ UsageExits(argv)
  /\ out' = UsageLines
  /\ exitCode' = 1
  /\ pc' = "exited"
  /\ UNCHANGED <<detectVars, envFile, logFile, argv, verdict, trace>>

\* detector.analyze(process.argv[2]) when no file is at the path: the notice,
\* return, and the process ends with the default status
AnalyzeNotFound ==
  /\ pc = "idle"
  /\ ~UsageExits(argv)
  /\ ~FileAt(argv, logFile).exists
  /\ out' = <<NotFoundLine(PathArg(argv)), TipLine>>
  /\ trace' = <<"analyze", "existsSync(logFile)">>
  /\ exitCode' = 0
  /\ pc' = "exited"
  /\ UNCHANGED <<detectVars, envFile, logFile, argv, verdict>>

\* detector.analyze(process.argv[2]) when the file is there: it is read and
\* detectScreams is entered
AnalyzeRead ==
  /\ pc = "idle"
  /\ ~UsageExits(argv)
  /\ FileAt(argv, logFile).exists
  /\ trace' = <<"analyze", "existsSync(logFile)", "readFileSync(logFile)",
                "detectScreams">>
  /\ logContent' = FileAt(argv, logFile).content
  /\ pc' = "loop"
  /\ patternIdx' = 1
  /\ suspects' = <<>>
  /\ UNCHANGED <<lastIndex, screams, prev>>
  /\ UNCHANGED <<envFile, logFile, argv, verdict, out, exitCode>>

\* detectScreams has returned nothing: the notice, return, and the process
\* ends with the default status
AnalyzeNoScreams ==
  /\ pc = "returned"
  /\ NoScreams(screams)
  /\ out' = <<NoScreamsLine>>
  /\ exitCode' = 0
  /\ pc' = "exited"
  /\ UNCHANGED <<detectVars, envFile, logFile, argv, verdict, trace>>

\* detectScreams has returned names: autopsy, the report, and the process ends
\* with the default status
AnalyzeReport ==
  /\ pc = "returned"
  /\ ~NoScreams(screams)
  /\ verdict' = autopsy(screams, envFile)
  /\ trace' = trace \o AutopsyTrace(envFile)
  /\ out' = Report(verdict')
  /\ exitCode' = 0
  /\ pc' = "exited"
  /\ UNCHANGED <<detectVars, envFile, logFile, argv>>

CliNext ==
  \/ MainUsage \/ AnalyzeNotFound \/ AnalyzeRead
  \/ ExecMatch \/ ExecNull \/ DetectReturn
  \/ AnalyzeNoScreams \/ AnalyzeReport

CliSpec == CliInit /\ [][CliNext]_vars

----------------------------------------------------------------------------
(* Properties of detectScreams                                             *)

\* C4: a detectScreams call returns what a call with the same text returns on
\* a detector fresh from the constructor, however many calls the detector has
\* served before; and a call that repeats the text of the previous call
\* returns what the previous call returned
C4_Idempotent ==
  pc = "returned" =>
    /\ screams = detectScreams(logContent, FreshLastIndex).screams
    /\ (prev # <<>> => screams = prev[1])

\* a repeated call has returned a non-empty result
C4_Witness == pc = "returned" /\ prev # <<>> /\ Len(screams) >= 2

HasLower(s) == \E k \in DOMAIN s : IsLower(s[k])

\* C5: every name returned by detectScreams is free of lower-case letters
C5_UpperCase ==
  pc = "returned" => \A k \in DOMAIN screams : ~HasLower(screams[k])

\* a name written in lower case in the log was captured by the
\* case-insensitive expression and returned
C5_Witness ==
  /\ pc = "returned"
  /\ screams = << <<"K","E","Y">> >>
  /\ \E i \in 0..(Len(logContent) - 3) :
       Substring(logContent, i, i + 3) = <<"k","e","y">>

\* C10: every exec that matches moves lastIndex of its expression strictly
\* forward, a call that is entered returns, and at return lastIndex of every
\* expression is 0
C10_Terminates ==
  /\ [][(pc = "loop" /\ pc' = "loop" /\ patternIdx' = patternIdx)
          => lastIndex'[patternIdx] > lastIndex[patternIdx]]_vars
  /\ [](pc = "returned" => lastIndex = FreshLastIndex)
  /\ (pc = "loop") ~> (pc = "returned")

\* a call whose loop matched several times has returned
C10_Witness == pc = "returned" /\ Len(screams) >= 2 /\ prev = <<>>

----------------------------------------------------------------------------
(* Properties of autopsy                                                   *)

\* C1: missing and misconfigured have no name in common, together they hold
\* exactly the names of the candidates, and every candidate went to one of them
C1_Partition ==
  pc = "returned" =>
    /\ Range(verdict.missing) \cap Range(verdict.misconfigured) = {}
    /\ Range(verdict.missing) \cup Range(verdict.misconfigured) = Range(suspects)
    /\ Len(verdict.missing) + Len(verdict.misconfigured) = Len(suspects)

\* autopsy has split the candidates into two non-empty parts
C1_Witness ==
  pc = "returned" /\ verdict.missing # <<>> /\ verdict.misconfigured # <<>>

\* C2: without a .env file every candidate is missing, none is misconfigured,
\* nothing is printed and no read of the file is attempted
C2_NoEnvFile ==
  (pc = "returned" /\ ~envFile.exists) =>
    /\ verdict.misconfigured = <<>>
    /\ verdict.missing = suspects
    /\ out = <<>>
    /\ "readFileSync(.env)" \notin Range(trace)

\* autopsy has run on several candidates without a .env file
C2_Witness == pc = "returned" /\ ~envFile.exists /\ Len(suspects) >= 2

\* the lines of a text: the longest stretches free of line breaks
LinesOf(text) ==
  {SubSeq(text, x[1], x[2]) : x \in
     {y \in (1..(Len(text) + 1)) \X (0..Len(text)) :
        /\ y[2] >= y[1] - 1
        /\ \A k \in y[1]..y[2] : text[k] # "\n"
        /\ (y[1] = 1 \/ text[y[1] - 1] = "\n")
        /\ (y[2] = Len(text) \/ text[y[2] + 1] = "\n")}}

\* the line is a commented-out declaration of name n: the comment marker,
\* blanks or none, the name, the separator
CommentedOut(line, n) ==
  \E b \in 0..1 :
    /\ Len(line) >= 1 + b + Len(n) + 1
    /\ line[1] = "#"
    /\ \A k \in 1..b : line[1 + k] = " "
    /\ \A k \in 1..Len(n) : line[1 + b + k] = n[k]
    /\ line[1 + b + Len(n) + 1] = "="

\* the line reads, before its first separator, as the name n up to blanks
\* around it and the case of its letters
Declares(line, n) ==
  \E e \in DOMAIN line :
    /\ line[e] = "="
    /\ \A k \in 1..(e - 1) : line[k] # "="
    /\ \E a \in 0..(e - 1 - Len(n)) :
         /\ \A k \in 1..a : line[k] \in WhiteSpace
         /\ \A k \in 1..Len(n) : ToUpperChar(line[a + k]) = n[k]
         /\ \A k \in (a + Len(n) + 1)..(e - 1) : line[k] \in WhiteSpace

\* C3 as stated: a candidate with a commented-out declaration in the .env file
\* is put in misconfigured and not in missing
C3_CommentDeclares ==
  (pc = "returned" /\ envFile.exists) =>
    \A n \in Range(suspects) :
      (\E line \in LinesOf(envFile.content) : CommentedOut(line, n)) =>
        /\ n \in Range(verdict.misconfigured)
        /\ n \notin Range(verdict.missing)

\* C3 amended: the key of a line keeps the comment marker, so a candidate is
\* put in misconfigured exactly when some line reads as the candidate itself
\* before its first separator, and in missing otherwise
C3_KeyKeepsMarker ==
  (pc = "returned" /\ envFile.exists) =>
    \A n \in Range(suspects) :
      LET declared == \E line \in LinesOf(envFile.content) : Declares(line, n)
      IN /\ n \in Range(verdict.misconfigured) <=> declared
         /\ n \in Range(verdict.missing) <=> ~declared

\* a candidate whose only declaration is commented out was reported missing
C3_Witness ==
  /\ pc = "returned"
  /\ envFile.exists
  /\ \E n \in Range(suspects) :
       /\ \E line \in LinesOf(envFile.content) : CommentedOut(line, n)
       /\ n \in Range(verdict.missing)

\* result holds the elements of seq that are in keep, in the order of seq
KeepsInOrder(result, seq, keep) ==
  LET Idx == {i \in DOMAIN seq : seq[i] \in keep}
  IN /\ Len(result) = Cardinality(Idx)
     /\ \A i \in Idx : result[Cardinality({j \in Idx : j <= i})] = seq[i]

\* C9: missing lists the candidates outside the reference keys and
\* misconfigured those among them, both in the order of the candidates
C9_OrderKept ==
  pc = "returned" =>
    LET keys == Range(ExistingVars(envFile))
    IN /\ KeepsInOrder(verdict.missing, suspects, Range(suspects) \ keys)
       /\ KeepsInOrder(verdict.misconfigured, suspects, Range(suspects) \cap keys)
       /\ (suspects = <<>> =>
             verdict.missing = <<>> /\ verdict.misconfigured = <<>>)

\* two different candidates were reported missing, a third misconfigured
C9_Witness ==
  /\ pc = "returned"
  /\ Len(verdict.missing) >= 2
  /\ verdict.missing[1] # verdict.missing[2]
  /\ verdict.misconfigured # <<>>

----------------------------------------------------------------------------
(* Properties of a command-line run                                        *)

\* C6: a run without a path argument prints the usage text and exits with
\* status 1 without entering analyze; a run with a path argument enters
\* analyze and ends with status 0, having printed the report, the no-screams
\* notice or the not-found notice; no status is set before the run ends
C6_ExitStatus ==
  /\ pc # "exited" => exitCode = -1
  /\ (pc = "exited" /\ Len(argv) < 3) =>
       /\ exitCode = 1
       /\ out = UsageLines
       /\ "analyze" \notin Range(trace)
  /\ (pc = "exited" /\ Len(argv) >= 3) =>
       /\ exitCode = 0
       /\ "analyze" \in Range(trace)
       /\ \/ out[1] = HeaderLine /\ out[Len(out)] = ClosingLine
          \/ out = <<NoScreamsLine>>
          \/ out = <<NotFoundLine(argv[3]), TipLine>>

\* a run without a path argument has ended
C6_Witness == pc = "exited" /\ Len(argv) < 3 /\ exitCode = 1

\* the other three ends of a run, each with status 0
C6_ReportEnd == pc = "exited" /\ exitCode = 0 /\ out[1] = HeaderLine
C6_NoScreamsEnd == pc = "exited" /\ exitCode = 0 /\ out = <<NoScreamsLine>>
C6_NotFoundEnd ==
  pc = "exited" /\ exitCode = 0 /\ Len(out) = 2 /\ out[2] = TipLine

\* no expression of envPatterns matches anywhere in the text
MatchesNothing(s) ==
  \A k \in 1..NumPatterns : \A i \in 0..Len(s) :
    ~MatchAt(envPatterns[k], s, i).found

\* C7: for a log file that is there and matches no pattern, detectScreams
\* returns the empty array, the no-screams notice is all that is printed, and
\* neither autopsy nor the .env file is touched
C7_NoScreamsOnly ==
  (/\ pc = "exited"
   /\ Len(argv) >= 3
   /\ logFile.exists
   /\ MatchesNothing(logFile.content)) =>
    /\ screams = <<>>
    /\ out = <<NoScreamsLine>>
    /\ Range(trace) \cap {"autopsy", "existsSync(.env)", "readFileSync(.env)"} = {}
    /\ verdict = NoVerdict

\* a run on a log file with text but no match has ended, a .env file present
C7_Witness ==
  /\ pc = "exited"
  /\ Len(argv) >= 3
  /\ logFile.exists
  /\ logFile.content # <<>>
  /\ MatchesNothing(logFile.content)
  /\ envFile.exists

\* the same for the empty log file
C7_EmptyLogEnd ==
  pc = "exited" /\ Len(argv) >= 3 /\ logFile.exists /\ logFile.content = <<>>

\* the number of lines a section of n names takes: its title and the names
SectionLines(n) == IF n = 0 THEN 0 ELSE n + 1

\* C8: when detectScreams returns names, what is printed is the header (with
\* its rule), then the missing section, one line NAME=your_value_here for each
\* missing name in order, then the misconfigured section, one line for each
\* misconfigured name in order, then the closing remark, and nothing else; a
\* section without names is left out altogether
C8_ReportOrder ==
  (pc = "exited" /\ screams # <<>>) =>
    LET m == verdict.missing
        c == verdict.misconfigured
        a == 2
        b == a + SectionLines(Len(m))
    IN /\ Len(out) = b + SectionLines(Len(c)) + 1
       /\ out[1] = HeaderLine
       /\ out[a] = RuleLine
       /\ m # <<>> =>
            /\ out[a + 1] = MissingTitle
            /\ \A k \in DOMAIN m :
                 out[a + 1 + k] =
                   <<" "," ","-"," ">> \o m[k] \o
                   <<"=","y","o","u","r","_","v","a","l","u","e","_","h","e","r","e">>
       /\ c # <<>> =>
            /\ out[b + 1] = MisconfiguredTitle
            /\ \A k \in DOMAIN c : out[b + 1 + k] = <<" "," ","-"," ">> \o c[k]
       /\ out[Len(out)] = ClosingLine
       /\ Range(m) \cup Range(c) = Range(screams)

\* a report with both sections has been printed
C8_Witness ==
  /\ pc = "exited"
  /\ verdict.missing # <<>>
  /\ verdict.misconfigured # <<>>

====
